---- MODULE Spec2Model ----
(***************************************************************************)
(* RoomIdOrAliasId (crates/ruma-identifiers/src/room_id_or_room_alias_id.rs)*)
(* A validated string that is either a room ID ('!') or a room alias ID     *)
(* ('#'), with its accessors, its classification and its widening and       *)
(* narrowing conversions to Box<RoomId> and Box<RoomAliasId>.               *)
(*                                                                         *)
(* A string is a sequence of one-character strings.  Indices handed around  *)
(* by the Rust code (find, slicing) are 0-based and are kept 0-based here;  *)
(* Slice translates them to TLA+ sequences.                                 *)
(***************************************************************************)
EXTENDS Naturals, Sequences, FiniteSets

\* Longest candidate string handed to the parsers.
MaxLen == 5

\* Characters of candidate strings: the two sigils, the delimiter, a host
\* letter and a digit.
Alphabet == {"!", "#", ":", "a", "1"}

HostChars == {"a", "1"}
Digits == {"1"}

Strings == UNION {[1..n -> Alphabet] : n \in 0..MaxLen}

VARIABLES
    input,  \* the candidate string the program was given
    val,    \* the identifier the program owns: [type, str]
    wire,   \* the last serialized form: [fmt, bytes]
    last,   \* the last operation, its argument and its outcome
    prev    \* the operation before it

vars == <<input, val, wire, last, prev>>

------------------------------------------------------------------------------
(* str helpers *)

\* Rust's s[a..b] on 0-based byte offsets.
Slice(s, a, b) == SubSeq(s, a + 1, b)

\* Whether s[a..b] is in bounds (otherwise the slice panics).
SliceOk(s, a, b) == a <= b /\ b <= Len(s)

\* str::find(c): Some(0-based index of the first c) or None.
Find(s, c) ==
    IF \E i \in 1..Len(s) : s[i] = c
    THEN [some |-> TRUE,
          idx |-> (CHOOSE i \in 1..Len(s) :
                      s[i] = c /\ \A j \in 1..(i - 1) : s[j] # c) - 1]
    ELSE [some |-> FALSE, idx |-> 0]

\* str::starts_with over a set of characters.
StartsWith(s, cs) == Len(s) > 0 /\ s[1] \in cs

------------------------------------------------------------------------------
(* ruma_identifiers_validation *)

\* server_name::validate: a non-empty host, optionally ':' and a decimal port.
server_name_validate(s) ==
    LET c == Find(s, ":")
        end_of_host == IF c.some THEN c.idx ELSE Len(s)
        host == Slice(s, 0, end_of_host)
        port == Slice(s, end_of_host + 1, Len(s))
    IN  /\ Len(host) > 0
        /\ \A i \in 1..Len(host) : host[i] \in HostChars
        /\ c.some => /\ Len(port) > 0
                     /\ \A i \in 1..Len(port) : port[i] \in Digits

\* The rule with the delimiter looked for before the sigil.
validate_delimited_id_reordered(s, sigils) ==
    IF ~Find(s, ":").some THEN "MissingDelimiter"
    ELSE IF ~StartsWith(s, sigils) THEN "MissingLeadingSigil"
    ELSE IF ~server_name_validate(Slice(s, Find(s, ":").idx + 1, Len(s)))
         THEN "InvalidServerName"
    ELSE "Ok"

\* The shared sigil + delimiter + server name rule; "Ok" or the error.
validate_delimited_id(s, sigils) ==
    IF ~StartsWith(s, sigils) THEN "MissingLeadingSigil"
    ELSE IF ~Find(s, ":").some THEN "MissingDelimiter"
    ELSE IF ~server_name_validate(Slice(s, Find(s, ":").idx + 1, Len(s)))
         THEN "InvalidServerName"
    ELSE "Ok"

room_id_validate(s) == validate_delimited_id(s, {"!"})

room_alias_id_validate(s) == validate_delimited_id(s, {"#"})

\* validate reporting every failure as an invalid server name.
validate_one_error(s) ==
    IF validate_delimited_id(s, {"!", "#"}) = "Ok" THEN "Ok"
    ELSE "InvalidServerName"

\* room_id_or_alias_id::validate
validate(s) == validate_delimited_id(s, {"!", "#"})

------------------------------------------------------------------------------
(* values and outcomes *)

NoStr == <<>>

NoVal == [type |-> "None", str |-> NoStr]

Val(t, s) == [type |-> t, str |-> s]

NoWire == [fmt |-> "none", bytes |-> NoStr]

\* One operation: its name, its argument string, how it ended (res), the
\* error it returned, and the type and bytes of the value it returned.
Rec(op, arg, res, err, ty, out) ==
    [op |-> op, arg |-> arg, res |-> res, err |-> err, ty |-> ty, out |-> out]

NoRec == Rec("none", NoStr, "none", "none", "None", NoStr)

\* A panic (unwrap on None/Err, slice out of bounds) or an abort ends the run.
Running == last.res \notin {"panic", "abort"}

Init ==
    /\ input \in Strings
    /\ val = NoVal
    /\ wire = NoWire
    /\ last = NoRec
    /\ prev = NoRec

\* try_from keeping the bytes after the sigil only.
try_from_str_stripped(s) ==
    IF validate(s) = "Ok"
    THEN [res |-> "Ok", err |-> "none", val |-> Val("RoomIdOrAliasId", Tail(s))]
    ELSE [res |-> "Err", err |-> validate(s), val |-> NoVal]

\* <&RoomIdOrAliasId>::try_from(&str) / Box<RoomIdOrAliasId>::try_from(&str):
\* validate, then wrap the bytes unchanged.
try_from_str(s) ==
    IF validate(s) = "Ok"
    THEN [res |-> "Ok", err |-> "none", val |-> Val("RoomIdOrAliasId", s)]
    ELSE [res |-> "Err", err |-> validate(s), val |-> NoVal]

\* RoomId::try_from(&str) / Box<RoomId>::try_from(&str)
room_id_try_from_str(s) ==
    IF room_id_validate(s) = "Ok"
    THEN [res |-> "Ok", err |-> "none", val |-> Val("RoomId", s)]
    ELSE [res |-> "Err", err |-> room_id_validate(s), val |-> NoVal]

\* RoomAliasId::try_from(&str) / Box<RoomAliasId>::try_from(&str)
room_alias_id_try_from_str(s) ==
    IF room_alias_id_validate(s) = "Ok"
    THEN [res |-> "Ok", err |-> "none", val |-> Val("RoomAliasId", s)]
    ELSE [res |-> "Err", err |-> room_alias_id_validate(s), val |-> NoVal]

\* from_owned(Box<str>): reinterprets the bytes, no validation.
from_owned(t, s) == Val(t, s)

\* Result::unwrap / Option::unwrap on a parse result.
Unwrap(r, res) ==
    IF r.res = "Ok" THEN [res |-> res, val |-> r.val]
    ELSE [res |-> "panic", val |-> NoVal]

Aborted == [res |-> "abort", val |-> NoVal]

------------------------------------------------------------------------------
(* impl RoomIdOrAliasId *)

\* What a build may do on reaching unreachable_unchecked(): take either arm
\* of the match, or crash.
UBOutcomes == {"RoomId", "RoomAliasId", "abort"}

\* variant with the alias arm matching another byte than '#'.
variant_wrong_sigil(s) ==
    IF Len(s) > 0 /\ s[1] = "!" THEN {"RoomId"}
    ELSE IF Len(s) > 0 /\ s[1] = "@" THEN {"RoomAliasId"}
    ELSE UBOutcomes

\* fn variant(&self) -> Variant: the outcomes the call can have.
variant(s) ==
    IF Len(s) > 0 /\ s[1] = "!" THEN {"RoomId"}
    ELSE IF Len(s) > 0 /\ s[1] = "#" THEN {"RoomAliasId"}
    ELSE UBOutcomes

\* str::rfind(c): Some(0-based index of the last c) or None.
RFind(s, c) ==
    IF \E i \in 1..Len(s) : s[i] = c
    THEN [some |-> TRUE,
          idx |-> (CHOOSE i \in 1..Len(s) :
                      s[i] = c /\ \A j \in (i + 1)..Len(s) : s[j] # c) - 1]
    ELSE [some |-> FALSE, idx |-> 0]

\* colon_idx searching from the end.
colon_idx_rfind(s) == RFind(s, ":")

\* fn colon_idx(&self) -> usize: find(':'), unwrapped by the callers below.
colon_idx(s) == Find(s, ":")

\* fn localpart(&self) -> &str
localpart(s) ==
    LET c == colon_idx(s)
    IN  IF c.some /\ SliceOk(s, 1, c.idx)
        THEN [res |-> "Ok", out |-> Slice(s, 1, c.idx)]
        ELSE [res |-> "panic", out |-> NoStr]

\* fn server_name(&self) -> &ServerName
server_name(s) ==
    LET c == colon_idx(s)
    IN  IF /\ c.some
           /\ SliceOk(s, c.idx + 1, Len(s))
           /\ server_name_validate(Slice(s, c.idx + 1, Len(s)))
        THEN [res |-> "Ok", out |-> Slice(s, c.idx + 1, Len(s))]
        ELSE [res |-> "panic", out |-> NoStr]

BoolOf(v, want) ==
    IF v = "abort" THEN "abort" ELSE IF v = want THEN "true" ELSE "false"

\* fn is_room_id(&self) -> bool
is_room_id(s) == {BoolOf(v, "RoomId") : v \in variant(s)}

\* is_room_alias_id comparing against Variant::RoomId.
is_room_alias_id_copied(s) == {BoolOf(v, "RoomId") : v \in variant(s)}

\* fn is_room_alias_id(&self) -> bool
is_room_alias_id(s) == {BoolOf(v, "RoomAliasId") : v \in variant(s)}

\* fn into_either(self: Box<Self>) -> Either<Box<RoomId>, Box<RoomAliasId>>
into_either(s) ==
    {IF v = "RoomId" THEN [res |-> "Left", val |-> from_owned("RoomId", s)]
     ELSE IF v = "RoomAliasId"
          THEN [res |-> "Right", val |-> from_owned("RoomAliasId", s)]
     ELSE Aborted : v \in variant(s)}

------------------------------------------------------------------------------
(* conversions *)

\* From<Box<RoomId>> parsing the bytes after the sigil.
from_room_id_unsigiled(s) == Unwrap(try_from_str(Tail(s)), "Ok")

\* impl From<Box<RoomId>> for Box<RoomIdOrAliasId>
from_room_id(s) == Unwrap(try_from_str(s), "Ok")

\* From<Box<RoomAliasId>> parsing the bytes after the sigil.
from_room_alias_id_unsigiled(s) == Unwrap(try_from_str(Tail(s)), "Ok")

\* impl From<Box<RoomAliasId>> for Box<RoomIdOrAliasId>
from_room_alias_id(s) == Unwrap(try_from_str(s), "Ok")

\* TryFrom for Box<RoomId> with the two match arms' variants exchanged.
try_from_for_room_id_swapped(s) ==
    {IF v = "RoomAliasId" THEN Unwrap(room_id_try_from_str(s), "Ok")
     ELSE IF v = "RoomId" THEN Unwrap(room_alias_id_try_from_str(s), "Err")
     ELSE Aborted : v \in variant(s)}

\* impl TryFrom<Box<RoomIdOrAliasId>> for Box<RoomId>
try_from_for_room_id(s) ==
    {IF v = "RoomId" THEN Unwrap(room_id_try_from_str(s), "Ok")
     ELSE IF v = "RoomAliasId" THEN Unwrap(room_alias_id_try_from_str(s), "Err")
     ELSE Aborted : v \in variant(s)}

\* impl TryFrom<Box<RoomIdOrAliasId>> for Box<RoomAliasId>
try_from_for_room_alias_id(s) ==
    {IF v = "RoomAliasId" THEN Unwrap(room_alias_id_try_from_str(s), "Ok")
     ELSE IF v = "RoomId" THEN Unwrap(room_id_try_from_str(s), "Err")
     ELSE Aborted : v \in variant(s)}

------------------------------------------------------------------------------
(* serialization *)

DQ == "\""

BS == "\\"

\* serde_json's string escaping of the characters that need it.
RECURSIVE JsonEscape(_)
JsonEscape(s) ==
    IF s = <<>> THEN <<>>
    ELSE (IF Head(s) \in {DQ, BS} THEN <<BS, Head(s)>> ELSE <<Head(s)>>)
         \o JsonEscape(Tail(s))

\* The body of a JSON string literal, unescaped; ok is FALSE on a bare quote
\* or a dangling or unknown escape.
RECURSIVE JsonUnescape(_)
JsonUnescape(b) ==
    IF b = <<>> THEN [ok |-> TRUE, str |-> <<>>]
    ELSE IF Head(b) = DQ THEN [ok |-> FALSE, str |-> <<>>]
    ELSE IF Head(b) = BS
         THEN IF Len(b) >= 2 /\ b[2] \in {DQ, BS}
              THEN LET r == JsonUnescape(Tail(Tail(b)))
                   IN  [ok |-> r.ok, str |-> <<b[2]>> \o r.str]
              ELSE [ok |-> FALSE, str |-> <<>>]
    ELSE LET r == JsonUnescape(Tail(b))
         IN  [ok |-> r.ok, str |-> <<Head(b)>> \o r.str]

\* serde_json::to_string(&id): one string scalar.
to_json(s) == <<DQ>> \o JsonEscape(s) \o <<DQ>>

\* serde_json's reading of a string scalar.
from_json(w) ==
    IF Len(w) >= 2 /\ w[1] = DQ /\ w[Len(w)] = DQ
    THEN JsonUnescape(SubSeq(w, 2, Len(w) - 1))
    ELSE [ok |-> FALSE, str |-> <<>>]

\* Deserialize for Box<RoomIdOrAliasId>: read the string, then try_from.
deserialize(w) ==
    IF from_json(w).ok THEN try_from_str(from_json(w).str)
    ELSE [res |-> "Err", err |-> "Json", val |-> NoVal]

------------------------------------------------------------------------------
(* the operations a program performs *)

Step(rec) == last' = rec /\ prev' = last

\* RoomIdOrAliasId::try_from(input)
Parse ==
    /\ Running
    /\ LET r == try_from_str(input)
       IN  /\ val' = r.val
           /\ Step(Rec("parse", input, r.res, r.err, r.val.type, r.val.str))
    /\ UNCHANGED <<input, wire>>

\* RoomId::try_from(input)
ParseRoomId ==
    /\ Running
    /\ LET r == room_id_try_from_str(input)
       IN  /\ val' = r.val
           /\ Step(Rec("parse_room_id", input, r.res, r.err, r.val.type,
                       r.val.str))
    /\ UNCHANGED <<input, wire>>

\* RoomAliasId::try_from(input)
ParseRoomAliasId ==
    /\ Running
    /\ LET r == room_alias_id_try_from_str(input)
       IN  /\ val' = r.val
           /\ Step(Rec("parse_room_alias_id", input, r.res, r.err, r.val.type,
                       r.val.str))
    /\ UNCHANGED <<input, wire>>

\* An operation that consumes the owned value and returns another.
Consume(op, r) ==
    /\ val' = r.val
    /\ Step(Rec(op, val.str, r.res, "none", r.val.type, r.val.str))
    /\ UNCHANGED <<input, wire>>

\* Box<RoomIdOrAliasId>::from(room_id)
FromRoomId ==
    /\ Running
    /\ val.type = "RoomId"
    /\ Consume("from_room_id", from_room_id(val.str))

\* Box<RoomIdOrAliasId>::from(room_alias_id)
FromRoomAliasId ==
    /\ Running
    /\ val.type = "RoomAliasId"
    /\ Consume("from_room_alias_id", from_room_alias_id(val.str))

\* Box<RoomId>::try_from(id)
TryIntoRoomId ==
    /\ Running
    /\ val.type = "RoomIdOrAliasId"
    /\ \E r \in try_from_for_room_id(val.str) : Consume("try_into_room_id", r)

\* Box<RoomAliasId>::try_from(id)
TryIntoRoomAliasId ==
    /\ Running
    /\ val.type = "RoomIdOrAliasId"
    /\ \E r \in try_from_for_room_alias_id(val.str) :
          Consume("try_into_room_alias_id", r)

\* id.into_either()
IntoEither ==
    /\ Running
    /\ val.type = "RoomIdOrAliasId"
    /\ \E r \in into_either(val.str) : Consume("into_either", r)

\* An operation that borrows the owned value.
Borrow(op, res, ty, out) ==
    /\ Step(Rec(op, val.str, res, "none", ty, out))
    /\ val' = IF res \in {"panic", "abort"} THEN NoVal ELSE val
    /\ UNCHANGED <<input, wire>>

\* id.as_str()
AsStr ==
    /\ Running
    /\ val.type = "RoomIdOrAliasId"
    /\ Borrow("as_str", "Ok", "str", val.str)

\* id.localpart()
Localpart ==
    /\ Running
    /\ val.type = "RoomIdOrAliasId"
    /\ LET r == localpart(val.str) IN Borrow("localpart", r.res, "str", r.out)

\* id.server_name()
ServerName ==
    /\ Running
    /\ val.type = "RoomIdOrAliasId"
    /\ LET r == server_name(val.str)
       IN  Borrow("server_name", r.res, "ServerName", r.out)

\* id.is_room_id()
IsRoomId ==
    /\ Running
    /\ val.type = "RoomIdOrAliasId"
    /\ \E b \in is_room_id(val.str) : Borrow("is_room_id", b, "bool", NoStr)

\* id.is_room_alias_id()
IsRoomAliasId ==
    /\ Running
    /\ val.type = "RoomIdOrAliasId"
    /\ \E b \in is_room_alias_id(val.str) :
          Borrow("is_room_alias_id", b, "bool", NoStr)

\* id.to_string(): the canonical text form.
ToString ==
    /\ Running
    /\ val.type = "RoomIdOrAliasId"
    /\ wire' = [fmt |-> "text", bytes |-> val.str]
    /\ Step(Rec("to_string", val.str, "Ok", "none", "String", val.str))
    /\ UNCHANGED <<input, val>>

\* serde_json::to_string(&id)
Serialize ==
    /\ Running
    /\ val.type = "RoomIdOrAliasId"
    /\ wire' = [fmt |-> "json", bytes |-> to_json(val.str)]
    /\ Step(Rec("serialize", val.str, "Ok", "none", "String", to_json(val.str)))
    /\ UNCHANGED <<input, val>>

\* A JSON string literal arrives whose body is the candidate string as it is.
ReceiveJson ==
    /\ Running
    /\ wire' = [fmt |-> "json", bytes |-> <<DQ>> \o input \o <<DQ>>]
    /\ Step(Rec("receive_json", input, "Ok", "none", "String",
                <<DQ>> \o input \o <<DQ>>))
    /\ UNCHANGED <<input, val>>

\* RoomIdOrAliasId::try_from(text) on the text form written before.
ParseText ==
    /\ Running
    /\ wire.fmt = "text"
    /\ LET r == try_from_str(wire.bytes)
       IN  /\ val' = r.val
           /\ Step(Rec("parse_text", wire.bytes, r.res, r.err, r.val.type,
                       r.val.str))
    /\ UNCHANGED <<input, wire>>

\* serde_json::from_str::<Box<RoomIdOrAliasId>>(json)
Deserialize ==
    /\ Running
    /\ wire.fmt = "json"
    /\ LET r == deserialize(wire.bytes)
       IN  /\ val' = r.val
           /\ Step(Rec("deserialize", wire.bytes, r.res, r.err, r.val.type,
                       r.val.str))
    /\ UNCHANGED <<input, wire>>

\* RoomIdOrAliasId::from_owned(input): crate-internal, no validation.
FromOwned ==
    /\ Running
    /\ val' = from_owned("RoomIdOrAliasId", input)
    /\ Step(Rec("from_owned", input, "Ok", "none", "RoomIdOrAliasId", input))
    /\ UNCHANGED <<input, wire>>

Next ==
    \/ Parse
    \/ ParseRoomId
    \/ ParseRoomAliasId
    \/ FromRoomId
    \/ FromRoomAliasId
    \/ TryIntoRoomId
    \/ TryIntoRoomAliasId
    \/ IntoEither
    \/ AsStr
    \/ Localpart
    \/ ServerName
    \/ IsRoomId
    \/ IsRoomAliasId
    \/ ToString
    \/ Serialize
    \/ ReceiveJson
    \/ ParseText
    \/ Deserialize

\* The program as users of the crate can write it.
Spec == Init /\ [][Next]_vars

\* Classification applied to whatever the crate's own unvalidated
\* constructor wrapped.
NextUnchecked ==
    \/ FromOwned
    \/ IsRoomId
    \/ IsRoomAliasId
    \/ IntoEither
    \/ TryIntoRoomId
    \/ TryIntoRoomAliasId

SpecUnchecked == Init /\ [][NextUnchecked]_vars

------------------------------------------------------------------------------
(* properties *)

Sigils == {"!", "#"}

HasColon(s) == \E i \in 1..Len(s) : s[i] = ":"

\* The text after the first ':' of s (s has one).
AfterFirstColon(s) ==
    LET c == CHOOSE i \in 1..Len(s) : s[i] = ":" /\ \A j \in 1..(i - 1) : s[j] # ":"
    IN  SubSeq(s, c + 1, Len(s))

\* The construction invariant of a RoomIdOrAliasId.
WellFormed(s) ==
    /\ StartsWith(s, Sigils)
    /\ \E i \in 2..Len(s) : s[i] = ":"
    /\ server_name_validate(AfterFirstColon(s))

Narrowings == {"try_into_room_id", "try_into_room_alias_id"}

Widenings == {"from_room_id", "from_room_alias_id"}

\* C1: narrowing to RoomId is Ok iff the value starts with '!', narrowing to
\* RoomAliasId is Ok iff it starts with '#'; a failed narrowing returns Err
\* holding the other concrete type; in both cases the returned bytes are the
\* value's bytes.
C1_Narrowing ==
    /\ last.op = "try_into_room_id" =>
          /\ last.res \in {"Ok", "Err"}
          /\ last.res = "Ok" <=> StartsWith(last.arg, {"!"})
          /\ last.ty = (IF last.res = "Ok" THEN "RoomId" ELSE "RoomAliasId")
          /\ last.out = last.arg
    /\ last.op = "try_into_room_alias_id" =>
          /\ last.res \in {"Ok", "Err"}
          /\ last.res = "Ok" <=> StartsWith(last.arg, {"#"})
          /\ last.ty = (IF last.res = "Ok" THEN "RoomAliasId" ELSE "RoomId")
          /\ last.out = last.arg

\* A narrowing to RoomId failed and handed back a RoomAliasId.
C1_Witness ==
    /\ last.op = "try_into_room_id"
    /\ last.res = "Err"
    /\ last.ty = "RoomAliasId"
    /\ val = Val("RoomAliasId", last.arg)

C3_WidenThenNarrow ==
    /\ last.op \in Widenings =>
          /\ last.res = "Ok"
          /\ last.ty = "RoomIdOrAliasId"
          /\ last.out = last.arg
    /\ (prev.op = "from_room_id" /\ last.op = "try_into_room_id") =>
          /\ last.res = "Ok"
          /\ last.ty = "RoomId"
          /\ last.out = prev.arg
    /\ (prev.op = "from_room_alias_id" /\ last.op = "try_into_room_alias_id") =>
          /\ last.res = "Ok"
          /\ last.ty = "RoomAliasId"
          /\ last.out = prev.arg

\* A RoomAliasId was widened and narrowed back.
C3_Witness ==
    /\ prev.op = "from_room_alias_id"
    /\ last.op = "try_into_room_alias_id"
    /\ val = Val("RoomAliasId", prev.arg)

\* C4: a string that does not start with '!' or '#' (the empty string too)
\* fails to parse with MissingLeadingSigil, whatever follows, and no value
\* is made.
C4_MissingSigil ==
    (last.op = "parse" /\ ~StartsWith(input, Sigils)) =>
        /\ last.res = "Err"
        /\ last.err = "MissingLeadingSigil"
        /\ val = NoVal

\* A string with a colon and a valid server name, but no sigil, was refused.
C4_Witness ==
    /\ last.op = "parse"
    /\ ~StartsWith(input, Sigils)
    /\ HasColon(input)
    /\ server_name_validate(AfterFirstColon(input))
    /\ last.err = "MissingLeadingSigil"

C6_Parts ==
    /\ last.op = "localpart" =>
          /\ last.res = "Ok"
          /\ ~HasColon(last.out)
          /\ SubSeq(last.arg, 1, Len(last.out) + 2) =
                <<last.arg[1]>> \o last.out \o <<":">>
    /\ last.op = "server_name" =>
          /\ last.res = "Ok"
          /\ last.out = AfterFirstColon(last.arg)
    /\ (prev.op = "localpart" /\ last.op = "server_name") =>
          <<last.arg[1]>> \o prev.out \o <<":">> \o last.out = last.arg

\* Both parts were read of a value whose server name has a port.
C6_Witness ==
    /\ prev.op = "localpart"
    /\ prev.res = "Ok"
    /\ last.op = "server_name"
    /\ last.res = "Ok"
    /\ HasColon(last.out)

\* C7: exactly one of is_room_id() and is_room_alias_id() is true, by the
\* first byte; into_either() always returns Left(RoomId) for a room ID and
\* Right(RoomAliasId) for a room alias ID, with the value's bytes, and the
\* narrowing conversions choose the same variant.
C7_Classification ==
    /\ last.op = "is_room_id" =>
          last.res = (IF StartsWith(last.arg, {"!"}) THEN "true" ELSE "false")
    /\ last.op = "is_room_alias_id" =>
          last.res = (IF StartsWith(last.arg, {"#"}) THEN "true" ELSE "false")
    /\ (prev.op = "is_room_id" /\ last.op = "is_room_alias_id") =>
          /\ {prev.res, last.res} = {"true", "false"}
    /\ last.op = "into_either" =>
          /\ last.res = (IF StartsWith(last.arg, {"!"}) THEN "Left" ELSE "Right")
          /\ last.ty = (IF last.res = "Left" THEN "RoomId" ELSE "RoomAliasId")
          /\ last.out = last.arg
    /\ (prev.op = "is_room_id" /\ last.op = "into_either") =>
          (last.res = "Left" <=> prev.res = "true")
    /\ (prev.op = "is_room_id" /\ last.op = "try_into_room_id") =>
          (last.res = "Ok" <=> prev.res = "true")
    /\ (prev.op = "is_room_alias_id" /\ last.op = "try_into_room_alias_id") =>
          (last.res = "Ok" <=> prev.res = "true")

\* Both predicates were asked of a room alias ID.
C7_Witness ==
    /\ prev.op = "is_room_id"
    /\ prev.res = "false"
    /\ last.op = "is_room_alias_id"
    /\ last.res = "true"

\* C8: the first failing check names the error: no sigil gives
\* MissingLeadingSigil; a sigil but no ':' gives MissingDelimiter; sigil and
\* ':' but a bad server name after the first ':' gives InvalidServerName;
\* otherwise the string is accepted.
C8_CheckOrder ==
    last.op = "parse" =>
        /\ ~StartsWith(input, Sigils) =>
              (last.res = "Err" /\ last.err = "MissingLeadingSigil")
        /\ (StartsWith(input, Sigils) /\ ~HasColon(input)) =>
              (last.res = "Err" /\ last.err = "MissingDelimiter")
        /\ (StartsWith(input, Sigils) /\ HasColon(input)
            /\ ~server_name_validate(AfterFirstColon(input))) =>
              (last.res = "Err" /\ last.err = "InvalidServerName")
        /\ WellFormed(input) => (last.res = "Ok" /\ last.err = "none")

\* A string with a sigil, no ':' and so no server name was refused for the
\* missing delimiter.
C8_Witness ==
    /\ last.op = "parse"
    /\ StartsWith(input, Sigils)
    /\ ~HasColon(input)
    /\ last.err = "MissingDelimiter"

Classifiers ==
    {"is_room_id", "is_room_alias_id", "into_either"} \cup Narrowings

\* C9: classification of an instance whose first byte is no sigil (or which
\* is empty) stops the program; it never returns a variant.
C9_FailsLoudly ==
    (last.op \in Classifiers /\ ~StartsWith(last.arg, Sigils)) =>
        last.res \in {"panic", "abort"}

\* C10: every RoomIdOrAliasId that exists satisfies the construction
\* invariant, no unwrap() panics and the unreachable arm of variant() is not
\* taken, and a failed parse leaves no value.
C10_Invariant ==
    /\ val.type = "RoomIdOrAliasId" => WellFormed(val.str)
    /\ last.res \notin {"panic", "abort"}
    /\ prev.res \notin {"panic", "abort"}
    /\ (last.op \in {"parse", "parse_text", "deserialize"} /\ last.res = "Err") =>
          val = NoVal

\* After a round through widening and narrowing the accessors were used.
C10_Witness ==
    /\ prev.op \in Widenings
    /\ last.op \in {"localpart", "server_name", "is_room_id"}
    /\ val.type = "RoomIdOrAliasId"

====
